---- MODULE Spec2Model ----
(***************************************************************************)
(* A model of biopython_convert/JMESPathGen.py: the lazy JMESPath tree     *)
(* interpreter (TreeInterpreterGenerator) and its let() function, and of   *)
(* convert() of biopython_convert/__init__.py.                             *)
(*                                                                         *)
(* Five specifications share the module:                                   *)
(*   Spec        the memo table: _gen_to_list, visit, _is_false, or, not   *)
(*               acting on generator handles;                              *)
(*   SpecFilter  one filter-projection generator pulled by its consumer;   *)
(*   SpecEval    evaluation of queries over eager values (field, let,      *)
(*               comparator, not) and direct let() calls on scope objects; *)
(*   SpecForce   the forcing of function arguments that hold generators    *)
(*               inside generators;                                        *)
(*   SpecConvert one call of convert() of biopython_convert/__init__.py.   *)
(***************************************************************************)
EXTENDS Integers, Sequences, FiniteSets, TLC

VARIABLES items, st, obs, hist, fp, ev, cv

vars == <<items, st, obs, hist, fp, ev, cv>>

----------------------------------------------------------------------------
(* Bounds *)

\* number of generator handles of the memo machine
NumGens == 1

\* longest producer content
MaxLen == 2

\* deepest nesting of let calls in a query
MaxNest == 2

\* deepest nesting of generators in a function argument
MaxDepth == 3

----------------------------------------------------------------------------
(* Values: a tagged union. t is the kind; the payload is in the field of   *)
(* its type (n a number or a generator's handle, s a string, b a Boolean,  *)
(* l a sequence), the other fields at their defaults.                      *)

Val(t, n, s, b, l) == [t |-> t, n |-> n, s |-> s, b |-> b, l |-> l]

Null == Val("null", 0, "", FALSE, <<>>)

Bool(b) == Val("bool", 0, "", b, <<>>)

Num(n) == Val("num", n, "", FALSE, <<>>)

Str(s) == Val("str", 0, s, FALSE, <<>>)

\* a Python list
List(l) == Val("list", 0, "", FALSE, l)

\* a Python dict: its items in insertion order, each [k, v]
Obj(l) == Val("obj", 0, "", FALSE, l)

\* a domain object (SeqRecord, SeqFeature): attributes, no get() method
Opaque(l) == Val("opaque", 0, "", FALSE, l)

\* a generator object (types.GeneratorType), named by its handle
Gen(h) == Val("gen", h, "", FALSE, <<>>)

\* a raised exception, propagated by every caller
Error(name) == Val("error", 0, name, FALSE, <<>>)

\* a generator object made by a generator function of the interpreter run on
\* eager values, not yet started: iterated, it yields l and then ends (e = "")
\* or raises the exception e
Lazy(l, e) == Val("lazy", 0, e, FALSE, l)

IsLazy(x) == x.t = "lazy"

\* an _Expression: the captured node and the captured current value
Expref(node, context) == Val("expref", 0, "", FALSE, <<node, context>>)

IsError(x) == x.t = "error"

\* iter(x) raises TypeError
NotIterable(x) == x.t \in {"null", "num", "bool"}

\* itertools.islice(base, start, stop, step), not yet pulled: params is the
\* list of start, stop and step, each a Number or None
Islice(base, params) == Val("islice", 0, "", FALSE, <<base, params>>)

KV(k, x) == [k |-> k, v |-> x]

HasKey(pairs, k) == \E i \in 1..Len(pairs) : pairs[i].k = k

\* dict[k] for a key that is present
Lookup(pairs, k) == pairs[CHOOSE i \in 1..Len(pairs) : pairs[i].k = k].v

\* dict.get(k, None)
DictGet(pairs, k) == IF HasKey(pairs, k) THEN Lookup(pairs, k) ELSE Null

----------------------------------------------------------------------------
(* The memo table self._generators and the generators it is about.         *)
(* st.pos[h]      elements already pulled from generator h                 *)
(* st.generators  the dict: a function from keys to values                 *)
(* st.iter[h]     how often list(h) has run over generator h               *)

Handles == 1..NumGens

\* TreeInterpreterGenerator.__init__: self._generators = {}; no generator has
\* been pulled or iterated
NewInterpreter ==
    [pos |-> [h \in Handles |-> 0], generators |-> <<>>,
     iter |-> [h \in Handles |-> 0]]

\* the key a generator object hashes to
ObjKey(h) == [kind |-> "object", h |-> h]

\* the key id(generator): an int
IdKey(h) == [kind |-> "id", h |-> h]

\* itertools.chain((peek,), value): not a GeneratorType
Chain(peek, h) == Val("chain", h, "", FALSE, <<peek>>)

\* self._generators.get(key, default)
GeneratorsGet(s, key, default) ==
    IF key \in DOMAIN s.generators THEN s.generators[key] ELSE default

\* self._generators[key] = value
GeneratorsSet(s, key, value) ==
    [s EXCEPT !.generators = [k \in (DOMAIN s.generators) \cup {key} |->
                                 IF k = key THEN value ELSE s.generators[k]]]

\* what remains in generator h
Remaining(s, h) == SubSeq(items[h], s.pos[h] + 1, Len(items[h]))

\* isinstance(x, types.GeneratorType)
IsGeneratorType(x) == x.t = "gen"

\* getattr(x, '__hash__', None) is not None: lists and dicts are unhashable
Hashable(x) == x.t \notin {"list", "obj"}

\* the key a value hashes to: a generator hashes by identity, and no other value
\* of the model equals a key of the table
HashKey(x) == IF IsGeneratorType(x) THEN ObjKey(x.n) ELSE [kind |-> "value", h |-> 0]

\* _gen_to_list without memoising: the generator is iterated on every call
GenToListNoMemo(s, gen, recurse) ==
    IF IsGeneratorType(gen)
    THEN [st  |-> [s EXCEPT !.pos[gen.n] = Len(items[gen.n]),
                            !.iter[gen.n] = @ + 1],
          ret |-> List(Remaining(s, gen.n))]
    ELSE [st |-> s, ret |-> gen]

RECURSIVE GenToList(_, _, _)

RECURSIVE GenToListElems(_, _, _)

\* lines 109-111: l[i] = self._gen_to_list(l[i]) for the generators among l;
\* an exception of list(l[i]) ends the loop
GenToListElems(s, l, i) ==
    IF i > Len(l) THEN [st |-> s, ret |-> List(l)]
    ELSE IF IsGeneratorType(l[i]) \/ IsLazy(l[i])
         THEN LET r == GenToList(s, l[i], FALSE)
              IN  IF IsError(r.ret) THEN r
                  ELSE GenToListElems(r.st, [l EXCEPT ![i] = r.ret], i + 1)
         ELSE GenToListElems(s, l, i + 1)

\* _gen_to_list(gen, recurse): the list is stored under the generator object
\* and is the same list object whose elements the recursion replaces
GenToList(s, gen, recurse) ==
    LET g == IF Hashable(gen) THEN GeneratorsGet(s, HashKey(gen), gen) ELSE gen
    IN  IF IsGeneratorType(g)
        THEN LET l  == Remaining(s, g.n)
                 s1 == GeneratorsSet([s EXCEPT !.pos[g.n] = Len(items[g.n]),
                                               !.iter[g.n] = @ + 1],
                                     ObjKey(g.n), List(l))
             IN  IF recurse
                 THEN LET r == GenToListElems(s1, l, 1)
                      IN  IF IsError(r.ret) THEN r
                          ELSE [st  |-> GeneratorsSet(r.st, ObjKey(g.n), r.ret),
                                ret |-> r.ret]
                 ELSE [st |-> s1, ret |-> List(l)]
        ELSE IF IsLazy(g)
        THEN IF g.s # "" THEN [st |-> s, ret |-> Error(g.s)]
             ELSE IF recurse THEN GenToListElems(s, g.l, 1)
             ELSE [st |-> s, ret |-> List(g.l)]
        ELSE [st |-> s, ret |-> g]

\* visit(): a generator given as current value is replaced by its memo
VisitArg(s, value) ==
    IF IsGeneratorType(value) THEN GeneratorsGet(s, ObjKey(value.n), value) ELSE value

\* jmespath's TreeInterpreter._is_false
IsFalseBase(value) ==
    \/ value = Str("")
    \/ value = List(<<>>)
    \/ value = Obj(<<>>)
    \/ value = Null
    \/ value = Bool(FALSE)

\* _is_false(value): a generator is peeked with next(); the rebuilt chain is
\* stored under id(old_value)
IsFalse(s, value) ==
    IF IsGeneratorType(value)
    THEN IF s.pos[value.n] < Len(items[value.n])
         THEN LET peek == items[value.n][s.pos[value.n] + 1]
              IN  [st  |-> GeneratorsSet([s EXCEPT !.pos[value.n] = @ + 1],
                                         IdKey(value.n), Chain(peek, value.n)),
                   ret |-> FALSE]
         ELSE [st |-> s, ret |-> TRUE]
    ELSE IF IsLazy(value) THEN [st |-> s, ret |-> value.l = <<>>]
    ELSE [st |-> s, ret |-> IsFalseBase(value)]

\* the object _is_false was given, as it is once _is_false returned: a
\* generator made by the evaluation has lost the element next() pulled
AfterPeek(value) ==
    IF IsLazy(value) /\ value.l # <<>> THEN Lazy(Tail(value.l), value.s) ELSE value

\* next(value) in _is_false raises: the generator raises before its first
\* yield, and only StopIteration is caught
PeekRaises(value) == IsLazy(value) /\ value.l = <<>> /\ value.s # ""

\* original_result == 0: Python's == holds for 0 and for False
EqualsZero(x) == x = Num(0) \/ x = Bool(FALSE)

\* visit_not_expression once the operand is evaluated
VisitNotExpression(s, original_result) ==
    IF EqualsZero(original_result)
    THEN [st |-> s, ret |-> FALSE]
    ELSE IsFalse(s, original_result)

\* visit_or_expression once the left operand is evaluated: right is what
\* visiting the right operand gives
VisitOrExpression(s, matched, right) ==
    LET r == IsFalse(s, matched)
    IN  [st |-> r.st, ret |-> IF r.ret THEN right ELSE AfterPeek(matched)]

\* an and-expression giving the truth value of its operands
VisitAndCoerced(s, matched, right) ==
    LET r == IsFalse(s, matched)
    IN  [st |-> r.st, ret |-> Bool(~r.ret /\ ~IsFalse(r.st, right).ret)]

\* visit_and_expression once the left operand is evaluated: right is what
\* visiting the right operand gives
VisitAndExpression(s, matched, right) ==
    LET r == IsFalse(s, matched)
    IN  [st |-> r.st, ret |-> IF r.ret THEN AfterPeek(matched) ELSE right]

----------------------------------------------------------------------------
(* The parsed query: nodes {type, value, children} as jmespath's parser    *)
(* builds them. value is a name or an operator; the value of a literal     *)
(* node is kept apart, in lit.                                             *)

Node(type, value, children) ==
    [type |-> type, value |-> value, lit |-> Null, children |-> children]

Field(name) == Node("field", name, <<>>)

Literal(x) == [type |-> "literal", value |-> "", lit |-> x, children |-> <<>>]

Current == Node("current", "", <<>>)

Identity == Node("identity", "", <<>>)

FilterProjection(base, right, condition) ==
    Node("filter_projection", "", <<base, right, condition>>)

Comparator(op, l, r) == Node("comparator", op, <<l, r>>)

NotExpression(e) == Node("not_expression", "", <<e>>)

OrExpression(l, r) == Node("or_expression", "", <<l, r>>)

AndExpression(l, r) == Node("and_expression", "", <<l, r>>)

\* [i]: the index is kept in lit
Index(i) == [type |-> "index", value |-> "", lit |-> Num(i), children |-> <<>>]

\* left.right, left[i], left | right
Subexpression(left, right) == Node("subexpression", "", <<left, right>>)

Projection(base, right) == Node("projection", "", <<base, right>>)

Flatten(base) == Node("flatten", "", <<base>>)

\* [start:stop:step]: the children, Numbers or None, are kept in lit
Slice(start, stop, step) ==
    [type |-> "slice", value |-> "", lit |-> List(<<start, stop, step>>),
     children |-> <<>>]

ValueProjection(base, right) == Node("value_projection", "", <<base, right>>)

ExprefNode(e) == Node("expref", "", <<e>>)

KeyValPair(k, e) == Node("key_val_pair", k, <<e>>)

MultiSelectDict(pairs) == Node("multi_select_dict", "", pairs)

FunctionExpression(name, args) == Node("function_expression", name, args)

\* let(bindings, &body)
LetNode(bindings, body) == FunctionExpression("let", <<bindings, ExprefNode(body)>>)

----------------------------------------------------------------------------
(* Evaluation over eager values. kw is **kwargs: whether it holds 'scope', *)
(* and the scope dict. No generator takes part, so the memo table stays as *)
(* __init__ made it.                                                       *)

NoKwargs == [has |-> FALSE, scope |-> <<>>]

ScopeKwargs(scope) == [has |-> TRUE, scope |-> scope]

\* Python's == on two values of the model (never a Boolean against a Number)
PyEq(a, b) == a.t = b.t /\ a = b

RECURSIVE DictSetFrom(_, _, _, _)

DictSetFrom(pairs, k, x, i) ==
    IF i > Len(pairs) THEN Append(pairs, KV(k, x))
    ELSE IF pairs[i].k = k THEN [pairs EXCEPT ![i] = KV(k, x)]
    ELSE DictSetFrom(pairs, k, x, i + 1)

\* d[k] = x: a present key keeps its place, a new key goes last
DictSet(pairs, k, x) == DictSetFrom(pairs, k, x, 1)

RECURSIVE DictUpdateFrom(_, _, _)

DictUpdateFrom(pairs, other, i) ==
    IF i > Len(other) THEN pairs
    ELSE DictUpdateFrom(DictSet(pairs, other[i].k, other[i].v), other, i + 1)

\* d.update(other)
DictUpdate(pairs, other) == DictUpdateFrom(pairs, other, 1)

\* the names bound in the jmespath package namespace, which the imports of
\* lines 1-4 bind to the name jmespath
JmespathPackageAttrs ==
    {"parser", "visitor", "functions", "exceptions", "lexer", "ast", "compat",
     "Options", "compile", "search", "__version__"}

\* _is_comparable: a number ("Ordering operators are only valid for numbers")
IsComparable(x) == x.t = "num"

\* COMPARATOR_FUNC[op] for the ordering operators, on two numbers
OrderingFunc(op, l, r) ==
    CASE op = "lt"  -> Bool(l.n < r.n)
      [] op = "lte" -> Bool(l.n <= r.n)
      [] op = "gt"  -> Bool(l.n > r.n)
      [] op = "gte" -> Bool(l.n >= r.n)

EqualityOps == {"eq", "ne"}

OrderingOps == {"lt", "lte", "gt", "gte"}

\* visit_comparator once both operands are evaluated
VisitComparator(op, left, right) ==
    IF op \in EqualityOps
    THEN IF IsError(left) THEN left
         ELSE IF IsError(right) THEN right
         ELSE Bool(IF op = "eq" THEN PyEq(left, right) ELSE ~PyEq(left, right))
    ELSE IF IsError(left) THEN left
         ELSE IF IsError(right) THEN right
         ELSE IF "_is_comparable" \notin JmespathPackageAttrs
              THEN Error("AttributeError")
              ELSE IF ~(IsComparable(left) /\ IsComparable(right)) THEN Null
              ELSE OrderingFunc(op, left, right)

\* visit_field: value.get(name), else getattr(value, name), else the scope
VisitField(name, value, kw) ==
    IF value.t = "obj" THEN DictGet(value.l, name)
    ELSE IF value.t = "opaque" /\ HasKey(value.l, name) THEN Lookup(value.l, name)
    ELSE IF kw.has THEN DictGet(kw.scope, name)
    ELSE Null

\* _func_let updating the scope it was given instead of a copy of it
LetScopeInPlace(store, lexRef, kwRef) ==
    IF kwRef # 0
    THEN [store |-> [store EXCEPT ![kwRef] = DictUpdate(store[kwRef], store[lexRef])],
          ref   |-> kwRef]
    ELSE [store |-> store, ref |-> lexRef]

\* _func_let, lines 67-72: the scope the expref is evaluated in. store holds
\* the dict objects that exist, lexRef names lexical_scope and kwRef names
\* kwargs['scope'] (0: 'scope' is not in kwargs); the new dict is a new object
LetScope(store, lexRef, kwRef) ==
    IF kwRef # 0
    THEN [store |-> Append(store, DictUpdate(store[kwRef], store[lexRef])),
          ref   |-> Len(store) + 1]
    ELSE [store |-> Append(store, store[lexRef]), ref |-> Len(store) + 1]

RECURSIVE Visit(_, _, _)

\* _func_let: expref.visit(expref.expression, expref.context, scope=scope)
FuncLet(store, lexRef, expref, kwRef) ==
    LET r == LetScope(store, lexRef, kwRef)
    IN  [store |-> r.store,
         ret   |-> Visit(expref.l[1], expref.l[2], ScopeKwargs(r.store[r.ref]))]

\* the signature of let: ({'types': ['object']}, {'types': ['expref']})
LetSignature == <<"obj", "expref">>

\* Functions._validate_arguments: the arity, then each argument's type
ValidateArguments(args, signature) ==
    IF Len(args) # Len(signature) THEN Error("ArityError")
    ELSE IF \E i \in 1..Len(args) : args[i].t # signature[i]
         THEN Error("JMESPathTypeError")
         ELSE Null

\* the names of FUNCTION_TABLE the model calls
FunctionTable == {"let"}

\* call_function(function_name, resolved_args, **kwargs)
CallFunction(function_name, resolved_args, kw) ==
    IF function_name \notin FunctionTable THEN Error("UnknownFunctionError")
    ELSE IF IsError(ValidateArguments(resolved_args, LetSignature))
         THEN ValidateArguments(resolved_args, LetSignature)
         ELSE FuncLet(IF kw.has THEN <<kw.scope, resolved_args[1].l>>
                                ELSE <<resolved_args[1].l>>,
                      IF kw.has THEN 2 ELSE 1,
                      resolved_args[2],
                      IF kw.has THEN 1 ELSE 0).ret

\* visit_function_expression, line 142: call_function is given no kwargs
CallResolved(node, resolved_args, kw) ==
    CallFunction(node.value, resolved_args, NoKwargs)

RECURSIVE ResolveArgs(_, _, _, _, _)

\* visit_function_expression, lines 138-141: each child is visited with the
\* kwargs and forced; the first exception ends the loop
ResolveArgs(children, value, kw, i, resolved_args) ==
    IF i > Len(children) THEN List(resolved_args)
    ELSE LET current == GenToList(NewInterpreter, Visit(children[i], value, kw), TRUE).ret
         IN  IF IsError(current) THEN current
             ELSE ResolveArgs(children, value, kw, i + 1,
                              Append(resolved_args, current))

VisitFunctionExpression(node, value, kw) ==
    LET args == ResolveArgs(node.children, value, kw, 1, <<>>)
    IN  IF IsError(args) THEN args ELSE CallResolved(node, args.l, kw)

RECURSIVE CollectDict(_, _, _, _, _)

\* visit_multi_select_dict, lines 272-275
CollectDict(children, value, kw, i, collected) ==
    IF i > Len(children) THEN Obj(collected)
    ELSE LET x == Visit(children[i], value, kw)
         IN  IF IsError(x) THEN x
             ELSE CollectDict(children, value, kw, i + 1,
                              DictSet(collected, children[i].value, x))

VisitMultiSelectDict(node, value, kw) ==
    IF value = Null THEN Null ELSE CollectDict(node.children, value, kw, 1, <<>>)

\* visit_not_expression on an eager operand: an exception of the operand
\* propagates
VisitNot(original_result) ==
    IF IsError(original_result) THEN original_result
    ELSE IF PeekRaises(original_result) THEN Error(original_result.s)
    ELSE Bool(VisitNotExpression(NewInterpreter, original_result).ret)

\* isinstance(base, (list, types.GeneratorType, map, filter))
ArrayLike(base) == base.t \in {"list", "gen", "lazy"}

\* what `for element in base` goes through before base ends or raises
Elements(base) ==
    IF IsGeneratorType(base) THEN Remaining(NewInterpreter, base.n) ELSE base.l

\* super().visit_index(node, value): value[i] of a list, None for an index out
\* of range and for every other value
PyIndex(value, i) ==
    IF value.t # "list" THEN Null
    ELSE IF 0 <= i /\ i < Len(value.l) THEN value.l[i + 1]
    ELSE IF -Len(value.l) <= i /\ i < 0 THEN value.l[Len(value.l) + i + 1]
    ELSE Null

\* visit_index on the value as it is, without _gen_to_list
VisitIndexNoForce(s, i, value) == [st |-> s, ret |-> PyIndex(value, i)]

\* visit_index: value = self._gen_to_list(value), then the list is indexed
VisitIndex(s, i, value) ==
    LET r == GenToList(s, value, FALSE)
    IN  [st |-> r.st, ret |-> IF IsError(r.ret) THEN r.ret ELSE PyIndex(r.ret, i)]

\* visit_slice: itertools.islice(value, start, stop, step); islice raises
\* TypeError for a value that is not iterable and ValueError for a negative
\* start or stop and for a step below 1
VisitSlice(params, value) ==
    IF NotIterable(value) THEN Error("TypeError")
    ELSE IF \/ (params.l[1] # Null /\ params.l[1].n < 0)
            \/ (params.l[2] # Null /\ params.l[2].n < 0)
            \/ (params.l[3] # Null /\ params.l[3].n < 1)
    THEN Error("ValueError")
    ELSE Islice(value, params)

\* a subexpression: the right child is visited on the result of the left one
VisitSubexpression(result, right, kw) ==
    IF IsError(result) THEN result ELSE Visit(right, result, kw)

RECURSIVE ProjectElems(_, _, _, _, _, _)

\* the loop of visit_projection and of visit_value_projection over seq: the
\* results that are not None are yielded; an exception of a visit, or the
\* exception e the base raises after seq, ends the generator
ProjectElems(right, seq, kw, e, i, acc) ==
    IF i > Len(seq) THEN Lazy(acc, e)
    ELSE IF IsError(Visit(right, seq[i], kw))
    THEN Lazy(acc, Visit(right, seq[i], kw).s)
    ELSE ProjectElems(right, seq, kw, e, i + 1,
                      IF Visit(right, seq[i], kw) = Null THEN acc
                      ELSE Append(acc, Visit(right, seq[i], kw)))

\* visit_projection: a generator function; the base is evaluated and tested
\* when the generator is first pulled
VisitProjection(base, right, kw) ==
    IF IsError(base) THEN Lazy(<<>>, base.s)
    ELSE IF ~ArrayLike(base) THEN Lazy(<<>>, "")
    ELSE ProjectElems(right, Elements(base), kw, base.s, 1, <<>>)

\* dict.values(): the values in insertion order
Values(pairs) == [i \in 1..Len(pairs) |-> pairs[i].v]

\* visit_value_projection: a generator function; base.values() raises
\* AttributeError for everything but a dict, and the generator returns
VisitValueProjection(base, right, kw) ==
    IF IsError(base) THEN Lazy(<<>>, base.s)
    ELSE IF base.t # "obj" THEN Lazy(<<>>, "")
    ELSE ProjectElems(right, Values(base.l), kw, "", 1, <<>>)

RECURSIVE FlattenElems(_, _, _, _)

\* the loop of visit_flatten: the elements of an array-like element are
\* yielded one by one, every other element as it is
FlattenElems(seq, e, i, acc) ==
    IF i > Len(seq) THEN Lazy(acc, e)
    ELSE IF ~ArrayLike(seq[i]) THEN FlattenElems(seq, e, i + 1, Append(acc, seq[i]))
    ELSE IF seq[i].s # "" THEN Lazy(acc \o Elements(seq[i]), seq[i].s)
    ELSE FlattenElems(seq, e, i + 1, acc \o Elements(seq[i]))

\* visit_flatten: a generator function
VisitFlatten(base) ==
    IF IsError(base) THEN Lazy(<<>>, base.s)
    ELSE IF ~ArrayLike(base) THEN Lazy(<<>>, "")
    ELSE FlattenElems(Elements(base), base.s, 1, <<>>)

RECURSIVE FilterElems(_, _, _, _, _, _)

\* the loop of visit_filter_projection over seq
FilterElems(node, seq, kw, e, i, acc) ==
    IF i > Len(seq) THEN Lazy(acc, e)
    ELSE IF IsError(Visit(node.children[3], seq[i], kw))
    THEN Lazy(acc, Visit(node.children[3], seq[i], kw).s)
    ELSE IF PeekRaises(Visit(node.children[3], seq[i], kw))
    THEN Lazy(acc, Visit(node.children[3], seq[i], kw).s)
    ELSE IF IsFalse(NewInterpreter, Visit(node.children[3], seq[i], kw)).ret
    THEN FilterElems(node, seq, kw, e, i + 1, acc)
    ELSE IF IsError(Visit(node.children[2], seq[i], kw))
    THEN Lazy(acc, Visit(node.children[2], seq[i], kw).s)
    ELSE FilterElems(node, seq, kw, e, i + 1,
                     IF Visit(node.children[2], seq[i], kw) = Null THEN acc
                     ELSE Append(acc, Visit(node.children[2], seq[i], kw)))

\* visit_filter_projection run to its end on an eager current value
FilterOver(base, node, kw) ==
    IF IsError(base) THEN Lazy(<<>>, base.s)
    ELSE IF ~ArrayLike(base) THEN Lazy(<<>>, "")
    ELSE FilterElems(node, Elements(base), kw, base.s, 1, <<>>)

\* visit_or_expression on eager operands: an exception of the left operand
\* propagates, the right operand is visited only if the left one is false
VisitOr(matched, right) ==
    IF IsError(matched) THEN matched
    ELSE IF PeekRaises(matched) THEN Error(matched.s)
    ELSE VisitOrExpression(NewInterpreter, matched, right).ret

\* visit_and_expression on eager operands
VisitAnd(matched, right) ==
    IF IsError(matched) THEN matched
    ELSE IF PeekRaises(matched) THEN Error(matched.s)
    ELSE VisitAndExpression(NewInterpreter, matched, right).ret

\* TreeInterpreter.visit: the dispatch on node['type']
Dispatch(node, value, kw) ==
    CASE node.type = "field" -> VisitField(node.value, value, kw)
      [] node.type = "literal" -> node.lit
      [] node.type = "current" -> value
      [] node.type = "identity" -> value
      [] node.type = "expref" -> Expref(node.children[1], value)
      [] node.type = "key_val_pair" -> Visit(node.children[1], value, kw)
      [] node.type = "multi_select_dict" -> VisitMultiSelectDict(node, value, kw)
      [] node.type = "function_expression" -> VisitFunctionExpression(node, value, kw)
      [] node.type = "not_expression" -> VisitNot(Visit(node.children[1], value, kw))
      [] node.type = "index" -> VisitIndex(NewInterpreter, node.lit.n, value).ret
      [] node.type = "slice" -> VisitSlice(node.lit, value)
      [] node.type = "subexpression" ->
            VisitSubexpression(Visit(node.children[1], value, kw),
                               node.children[2], kw)
      [] node.type = "projection" ->
            VisitProjection(Visit(node.children[1], value, kw),
                            node.children[2], kw)
      [] node.type = "value_projection" ->
            VisitValueProjection(Visit(node.children[1], value, kw),
                                 node.children[2], kw)
      [] node.type = "flatten" -> VisitFlatten(Visit(node.children[1], value, kw))
      [] node.type = "filter_projection" ->
            FilterOver(Visit(node.children[1], value, kw), node, kw)
      [] node.type = "or_expression" ->
            VisitOr(Visit(node.children[1], value, kw),
                    Visit(node.children[2], value, kw))
      [] node.type = "and_expression" ->
            VisitAnd(Visit(node.children[1], value, kw),
                     Visit(node.children[2], value, kw))
      [] node.type = "comparator" ->
            VisitComparator(node.value, Visit(node.children[1], value, kw),
                            Visit(node.children[2], value, kw))

\* visit(node, value, **kwargs), lines 115-120
Visit(node, value, kw) == Dispatch(node, VisitArg(NewInterpreter, value), kw)

----------------------------------------------------------------------------
(* The values the producers hold.                                          *)

PersonA == Obj(<<KV("name", Str("A")), KV("age", Num(25))>>)

PersonB == Obj(<<KV("name", Str("B")), KV("age", Num(40))>>)

NoName == Obj(<<KV("age", Num(40))>>)

Elems == {PersonA, PersonB, NoName}

Contents == UNION {[1..n -> Elems] : n \in 0..MaxLen}

\* the right operand of an or-expression: a literal
RightLiteral == Str("-")

----------------------------------------------------------------------------
(* Spec: the operations of one evaluation acting on generator handles.     *)
(* obs is what the last operation returned or was given; hist records, per *)
(* handle, the first materialisation, the position it was made at, whether *)
(* a peek pulled an element, and how many forces and later visits ran.     *)

NoHist == [forced |-> Null, at |-> 0, peeked |-> FALSE, forces |-> 0, visits |-> 0]

NoFp == [state |-> "none"]

NoEv == [op |-> "none"]

NoCv == [pc |-> "idle"]

Min(a, b) == IF a < b THEN a ELSE b

\* a producer of n elements, each one different
Counted(n) == [i \in 1..n |-> Num(i)]

InitMemo ==
    /\ items \in [Handles -> {Counted(n) : n \in 0..MaxLen}]
    /\ st = NewInterpreter
    /\ obs = [op |-> "init", h |-> 0, val |-> Null]
    /\ hist = [h \in Handles |-> NoHist]
    /\ fp = NoFp
    /\ ev = NoEv
    /\ cv = NoCv

\* visit_index / visit_function_expression forcing handle h
Force(h, recurse) ==
    LET r == GenToList(st, Gen(h), recurse)
    IN  /\ st' = r.st
        /\ obs' = [op |-> "force", h |-> h, val |-> r.ret]
        /\ hist' = [hist EXCEPT ![h] =
                       [@ EXCEPT !.forced = IF @ = Null THEN r.ret ELSE @,
                                 !.at = IF hist[h].forced = Null THEN st.pos[h] ELSE @,
                                 !.forces = Min(@ + 1, 2)]]
        /\ UNCHANGED <<items, fp, ev, cv>>

\* visit(node, h) with a current node: what the node is given as value
VisitCurrent(h) ==
    /\ obs' = [op |-> "visit", h |-> h, val |-> VisitArg(st, Gen(h))]
    /\ hist' = [hist EXCEPT ![h].visits =
                   IF hist[h].forced = Null THEN @ ELSE Min(@ + 1, 2)]
    /\ UNCHANGED <<items, st, fp, ev, cv>>

\* a truthiness test of the generator object h itself
Truthiness(h) ==
    LET r == IsFalse(st, Gen(h))
    IN  /\ st' = r.st
        /\ obs' = [op |-> "is_false", h |-> h, val |-> Bool(r.ret)]
        /\ hist' = [hist EXCEPT ![h].peeked = @ \/ (st.pos[h] < r.st.pos[h])]
        /\ UNCHANGED <<items, fp, ev, cv>>

\* visit_or_expression for `@ || '-'` on current value h
OrOnHandle(h) ==
    LET r == VisitOrExpression(st, VisitArg(st, Gen(h)), RightLiteral)
    IN  /\ st' = r.st
        /\ obs' = [op |-> "or", h |-> h, val |-> r.ret]
        /\ hist' = [hist EXCEPT ![h].peeked = @ \/ (st.pos[h] < r.st.pos[h])]
        /\ UNCHANGED <<items, fp, ev, cv>>

\* visit_not_expression for `!@` on current value h
NotOnHandle(h) ==
    LET r == VisitNotExpression(st, VisitArg(st, Gen(h)))
    IN  /\ st' = r.st
        /\ obs' = [op |-> "not", h |-> h, val |-> Bool(r.ret)]
        /\ hist' = [hist EXCEPT ![h].peeked = @ \/ (st.pos[h] < r.st.pos[h])]
        /\ UNCHANGED <<items, fp, ev, cv>>

\* the start, stop and step of the slices [:], [1:], [:1] and [::2]
SliceParams ==
    {List(<<Null, Null, Null>>), List(<<Num(1), Null, Null>>),
     List(<<Null, Num(1), Null>>), List(<<Null, Null, Num(2)>>)}

\* visit(slice node, h): visit_slice on current value h; pulled is how many
\* elements of h had been pulled when it was called
SliceOnHandle(h, params) ==
    /\ obs' = [op |-> "slice", h |-> h, val |-> VisitSlice(params, VisitArg(st, Gen(h))),
               pulled |-> st.pos[h]]
    /\ UNCHANGED <<items, st, hist, fp, ev, cv>>

\* the indices tried: in range from either end, and out of range
Indices == -(MaxLen + 1)..MaxLen

\* visit(index node, h): visit_index on current value h; base is the value
\* visit() hands to visit_index and pulled is how many elements of h had
\* been pulled when it was called
IndexOnHandle(h, i) ==
    LET r == VisitIndex(st, i, VisitArg(st, Gen(h)))
        m == GeneratorsGet(r.st, ObjKey(h), Gen(h))
    IN  /\ st' = r.st
        /\ obs' = [op |-> "index", h |-> h, val |-> r.ret, i |-> i,
                   base |-> VisitArg(st, Gen(h)), pulled |-> st.pos[h]]
        /\ hist' = [hist EXCEPT ![h] =
                       [@ EXCEPT !.forced = IF @ = Null THEN m ELSE @,
                                 !.at = IF hist[h].forced = Null THEN st.pos[h] ELSE @,
                                 !.forces = Min(@ + 1, 2)]]
        /\ UNCHANGED <<items, fp, ev, cv>>

\* current values that are no generator: a list, and values without an index
IndexValues ==
    {List(Counted(n)) : n \in 0..MaxLen}
        \cup {Null, Num(1), Bool(TRUE), Str("ab"), Obj(<<KV("x", Num(1))>>),
              Opaque("SeqRecord")}

\* visit(index node, value) on a current value that is no generator
IndexOnValue(value, i) ==
    LET r == VisitIndex(st, i, VisitArg(st, value))
    IN  /\ st' = r.st
        /\ obs' = [op |-> "index", h |-> 0, val |-> r.ret, i |-> i,
                   base |-> VisitArg(st, value), pulled |-> 0]
        /\ UNCHANGED <<items, hist, fp, ev, cv>>

NextMemo ==
    \/ \E h \in Handles, params \in SliceParams : SliceOnHandle(h, params)
    \/ \E h \in Handles, i \in Indices : IndexOnHandle(h, i)
    \/ \E value \in IndexValues, i \in Indices : IndexOnValue(value, i)
    \/ \E h \in Handles, recurse \in BOOLEAN : Force(h, recurse)
    \/ \E h \in Handles : VisitCurrent(h)
    \/ \E h \in Handles : Truthiness(h)
    \/ \E h \in Handles : OrOnHandle(h)
    \/ \E h \in Handles : NotOnHandle(h)

Spec == InitMemo /\ [][NextMemo]_vars

----------------------------------------------------------------------------
(* SpecEval: queries evaluated on eager values, field lookups under a      *)
(* scope, and let() called through call_function with and without a scope. *)
(* ev records the operation of the behaviour, its inputs and its result:    *)
(* each behaviour is one evaluation by a new interpreter.                  *)

Names == {"x", "y"}

\* the current values a query is evaluated on
EvalValues ==
    {Null, Bool(FALSE), Bool(TRUE), Num(0), Num(5), Str(""), Str("s"),
     List(<<>>), List(<<Num(0)>>), Obj(<<>>), Obj(<<KV("x", Num(7))>>),
     Obj(<<KV("y", Num(8))>>), Opaque(<<KV("x", Num(9))>>),
     Opaque(<<KV("id", Str("r"))>>),
     Obj(<<KV("b", Num(2)), KV("n", Null), KV("a", Num(1))>>)}

\* the dicts a let binds: {x: 1}, {x: 2}, {y: 2}
BindingDicts == {<<KV("x", Num(1))>>, <<KV("x", Num(2))>>, <<KV("y", Num(2))>>}

RECURSIVE BindingPairs(_, _)

BindingPairs(d, i) ==
    IF i > Len(d) THEN <<>>
    ELSE <<KeyValPair(d[i].k, Literal(d[i].v))>> \o BindingPairs(d, i + 1)

\* the multi-select-dict that evaluates to dict d
BindingNode(d) == MultiSelectDict(BindingPairs(d, 1))

RECURSIVE LetQueries(_)

\* a field, under at most n lets
LetQueries(n) ==
    IF n = 0 THEN {Field(name) : name \in Names}
    ELSE LetQueries(n - 1) \cup
         {LetNode(BindingNode(d), body) : d \in BindingDicts, body \in LetQueries(n - 1)}

\* the other queries: negations, comparisons, an unknown function, a let
\* whose first argument is no object
OtherQueries ==
    {NotExpression(Current), NotExpression(Field("x")),
     NotExpression(Comparator("gt", Current, Literal(Num(3)))),
     Comparator("eq", Current, Literal(Str("s"))),
     Comparator("ne", Current, Literal(Num(5))),
     Comparator("gt", Current, Literal(Num(3))),
     Comparator("lte", Field("x"), Literal(Num(7))),
     FunctionExpression("nosuch", <<Current>>),
     LetNode(Literal(Num(1)), Field("x")),
     FunctionExpression("let", <<BindingNode(<<KV("x", Num(1))>>)>>)}

\* the operands of and/or: the current value, a field, literals, and a call
\* of an unknown function, which raises
Operands ==
    {Current, Field("x"), Literal(Num(0)), Literal(Str("-")),
     FunctionExpression("nosuch", <<Current>>)}

\* and/or over the operands; ordering comparisons of the current value with
\* the Number 3, on either side; index, projection, flatten,
\* value-projection, filter-projection, slice and comparisons of a field
OperatorQueries ==
    {OrExpression(l, r) : l \in Operands, r \in Operands} \cup
    {AndExpression(l, r) : l \in Operands, r \in Operands} \cup
    {Comparator(op, Current, Literal(Num(3))) : op \in OrderingOps} \cup
    {Comparator(op, Literal(Num(3)), Current) : op \in OrderingOps} \cup
    {Index(0), Index(1), Index(-1), Index(-2),
     Subexpression(Field("x"), Index(0)),
     Projection(Identity, Identity), Projection(Identity, Field("x")),
     Projection(Field("x"), Identity),
     Flatten(Identity), Flatten(Field("x")),
     ValueProjection(Identity, Identity), ValueProjection(Identity, Field("x")),
     ValueProjection(Field("x"), Identity),
     FilterProjection(Identity, Identity, Field("x")),
     FilterProjection(Field("x"), Identity, Field("y")),
     Projection(Subexpression(Identity, Slice(Num(0), Num(1), Null)), Identity),
     Projection(Subexpression(Identity, Slice(Null, Null, Num(-1))), Identity),
     Comparator("eq", Field("x"), Literal(Str("s"))),
     Comparator("lt", Field("x"), Literal(Num(3)))}

\* the scopes a field lookup or a direct let call is given
KwChoices ==
    {NoKwargs, ScopeKwargs(<<KV("x", Num(1))>>), ScopeKwargs(<<KV("y", Num(3))>>),
     ScopeKwargs(<<KV("x", Num(1)), KV("y", Num(3))>>)}

InitEval ==
    /\ items = [h \in Handles |-> <<>>]
    /\ st = NewInterpreter
    /\ obs = [op |-> "init", h |-> 0, val |-> Null]
    /\ hist = [h \in Handles |-> NoHist]
    /\ fp = NoFp
    /\ ev = NoEv
    /\ cv = NoCv

\* ParsedResult.search: interpreter.visit(self.parsed, value)
Search(query, value) ==
    /\ ev = NoEv
    /\ ev' = [op |-> "search", query |-> query, value |-> value,
              result |-> Visit(query, value, NoKwargs)]
    /\ UNCHANGED <<items, st, obs, hist, fp, cv>>

\* visit_field(node, value, **kwargs) for a field node
FieldLookup(name, value, kw) ==
    /\ ev = NoEv
    /\ ev' = [op |-> "field", name |-> name, value |-> value, kw |-> kw,
              result |-> VisitField(name, value, kw)]
    /\ UNCHANGED <<items, st, obs, hist, fp, cv>>

\* call_function('let', [bindings, expref], **kwargs): the dicts that exist are
\* the caller's scope (when kwargs has one) and the bindings
LetCall(bindings, body, value, kw) ==
    LET before == IF kw.has THEN <<kw.scope, bindings>> ELSE <<bindings>>
        kwRef  == IF kw.has THEN 1 ELSE 0
        r      == FuncLet(before, Len(before), Expref(body, value), kwRef)
    IN  /\ ev = NoEv
        /\ ev' = [op |-> "let", body |-> body, value |-> value, kwRef |-> kwRef,
                  before |-> before, after |-> r.store, result |-> r.ret]
        /\ UNCHANGED <<items, st, obs, hist, fp, cv>>

NextEval ==
    \/ \E query \in LetQueries(MaxNest) \cup OtherQueries \cup OperatorQueries,
          value \in EvalValues :
          Search(query, value)
    \/ \E name \in Names, value \in EvalValues, kw \in KwChoices :
          FieldLookup(name, value, kw)
    \/ \E bindings \in BindingDicts, body \in LetQueries(1),
          value \in EvalValues, kw \in KwChoices :
          LetCall(bindings, body, value, kw)

SpecEval == InitEval /\ [][NextEval]_vars

----------------------------------------------------------------------------
(* SpecFilter: one filter-projection `base[?condition].right`, called on a *)
(* current value and then pulled by its consumer with next().              *)
(* fp.state  created (called, body not yet run), running (in the loop),    *)
(*           suspended (at the yield), finished (returned), raised (an     *)
(*           exception left the body)                                      *)
(* fp.base   the evaluated base, fp.idx the consumer's place in a list     *)
(*           base, fp.out what has been yielded, fp.ret what the call gave *)

\* the generator object a call of visit_filter_projection returns
FilterGen == Gen(0)

\* visit_filter_projection(node, value): the body holds a yield, so the call
\* runs none of it and returns a generator object, whatever the base is
VisitFilterProjection(node, value, kw) == FilterGen

\* `for element in list(base)`: the whole producer is pulled for one element
BaseNextEager(s, base, idx) ==
    IF base.t = "gen"
    THEN IF s.pos[base.n] < Len(items[base.n])
         THEN [ok |-> TRUE, element |-> items[base.n][s.pos[base.n] + 1],
               st |-> [s EXCEPT !.pos[base.n] = Len(items[base.n])], idx |-> idx]
         ELSE [ok |-> FALSE, element |-> Null, st |-> s, idx |-> idx]
    ELSE IF idx < Len(base.l)
         THEN [ok |-> TRUE, element |-> base.l[idx + 1], st |-> s, idx |-> idx + 1]
         ELSE [ok |-> FALSE, element |-> Null, st |-> s, idx |-> idx]

\* `for element in base`: the next element of the base, if it has one
BaseNext(s, base, idx) ==
    IF base.t = "gen"
    THEN IF s.pos[base.n] < Len(items[base.n])
         THEN [ok |-> TRUE, element |-> items[base.n][s.pos[base.n] + 1],
               st |-> [s EXCEPT !.pos[base.n] = @ + 1], idx |-> idx]
         ELSE [ok |-> FALSE, element |-> Null, st |-> s, idx |-> idx]
    ELSE IF idx < Len(base.l)
         THEN [ok |-> TRUE, element |-> base.l[idx + 1], st |-> s, idx |-> idx + 1]
         ELSE [ok |-> FALSE, element |-> Null, st |-> s, idx |-> idx]

\* the conditions and the right-hand sides of the filter-projections
Conditions ==
    {Comparator("gt", Field("age"), Literal(Num(30))),
     Comparator("eq", Field("name"), Literal(Str("B"))),
     Field("name")}

Rights == {Field("name"), Identity}

FilterQueries ==
    {FilterProjection(Identity, right, condition) :
        right \in Rights, condition \in Conditions}

\* the current values: the producer, its content as a list, and values that
\* are not array-like
FilterValues == {Gen(1), List(items[1]), Null, Num(5), Str("s"), PersonA}

InitFilter ==
    /\ items \in {[h \in Handles |-> IF h = 1 THEN c ELSE <<>>] : c \in Contents}
    /\ st = NewInterpreter
    /\ obs = [op |-> "init", h |-> 0, val |-> Null]
    /\ hist = [h \in Handles |-> NoHist]
    /\ fp = NoFp
    /\ ev = NoEv
    /\ cv = NoCv

\* the evaluator reaches the filter-projection node with current value value
FilterCall(node, value) ==
    /\ fp = NoFp
    /\ fp' = [state |-> "created", node |-> node, value |-> value, base |-> Null,
              idx |-> 0, out |-> <<>>, err |-> Null,
              ret |-> VisitFilterProjection(node, value, NoKwargs)]
    /\ UNCHANGED <<items, st, obs, hist, ev, cv>>

\* the consumer's next(): the body runs on from where it stands. The first
\* next() evaluates the base (line 153) and tests it (lines 154-155): a base
\* that is not array-like ends the generator
FilterResume ==
    /\ fp.state \in {"created", "suspended"}
    /\ IF fp.state = "suspended"
       THEN fp' = [fp EXCEPT !.state = "running"]
       ELSE LET base == Visit(fp.node.children[1], VisitArg(st, fp.value), NoKwargs)
            IN  fp' = [fp EXCEPT !.base = base,
                                 !.state = IF ArrayLike(base) THEN "running"
                                           ELSE "finished"]
    /\ UNCHANGED <<items, st, obs, hist, ev, cv>>

\* one turn of the loop of lines 157-162: the next element of the base, its
\* comparison, and for a true one the right-hand side, yielded unless None;
\* an exception of either visit leaves the generator
FilterIterate ==
    /\ fp.state = "running"
    /\ LET nx         == BaseNext(st, fp.base, fp.idx)
           comparison == Visit(fp.node.children[3], nx.element, NoKwargs)
           t          == IsFalse(nx.st, comparison)
           current    == Visit(fp.node.children[2], nx.element, NoKwargs)
       IN  IF ~nx.ok
           THEN fp' = [fp EXCEPT !.state = "finished"] /\ st' = nx.st
           ELSE IF IsError(comparison)
           THEN /\ fp' = [fp EXCEPT !.state = "raised", !.idx = nx.idx,
                                    !.err = comparison]
                /\ st' = nx.st
           ELSE IF t.ret
           THEN fp' = [fp EXCEPT !.idx = nx.idx] /\ st' = t.st
           ELSE IF IsError(current)
           THEN /\ fp' = [fp EXCEPT !.state = "raised", !.idx = nx.idx,
                                    !.err = current]
                /\ st' = t.st
           ELSE IF current # Null
           THEN /\ fp' = [fp EXCEPT !.state = "suspended", !.idx = nx.idx,
                                    !.out = Append(@, current)]
                /\ st' = t.st
           ELSE fp' = [fp EXCEPT !.idx = nx.idx] /\ st' = t.st
    /\ UNCHANGED <<items, obs, hist, ev, cv>>

NextFilter ==
    \/ \E node \in FilterQueries, value \in FilterValues : FilterCall(node, value)
    \/ FilterResume
    \/ FilterIterate

SpecFilter == InitFilter /\ [][NextFilter]_vars

----------------------------------------------------------------------------
(* SpecForce: the arguments of a function-expression forced by             *)
(* visit_function_expression. Generator h yields a number, generator h + 1, *)
(* or both, as `[*].[*]` and `[[@]]` make them; the innermost one yields    *)
(* numbers. obs is what the last operation returned.                       *)

NestHandles == 1..MaxDepth

\* what generator h yields
NestContents(h) ==
    IF h < MaxDepth
    THEN {<<Gen(h + 1)>>, <<Num(h), Gen(h + 1)>>, <<Num(h)>>}
    ELSE {<<Num(h)>>, <<>>}

\* what the children of a function-expression evaluate to: a generator, or a
\* list that holds one
NestArgs == {Gen(h) : h \in NestHandles} \cup {List(<<Gen(h)>>) : h \in NestHandles}

InitForce ==
    /\ items \in {f \in [NestHandles -> UNION {NestContents(h) : h \in NestHandles}] :
                    \A h \in NestHandles : f[h] \in NestContents(h)}
    /\ st = [pos |-> [h \in NestHandles |-> 0], generators |-> <<>>,
             iter |-> [h \in NestHandles |-> 0]]
    /\ obs = [op |-> "init", h |-> 0, val |-> Null]
    /\ hist = [h \in Handles |-> NoHist]
    /\ fp = NoFp
    /\ ev = NoEv
    /\ cv = NoCv

\* an earlier visit_index of generator h: _gen_to_list(h)
ForceEarlier(h) ==
    /\ st' = GenToList(st, Gen(h), FALSE).st
    /\ obs' = [op |-> "force", h |-> h, val |-> GenToList(st, Gen(h), FALSE).ret]
    /\ UNCHANGED <<items, hist, fp, ev, cv>>

\* visit_function_expression, line 140: the value of a child goes through
\* _gen_to_list(value, True) and is appended to resolved_args
ResolveArgument(arg) ==
    /\ st' = GenToList(st, VisitArg(st, arg), TRUE).st
    /\ obs' = [op |-> "resolve", h |-> 0,
               val |-> GenToList(st, VisitArg(st, arg), TRUE).ret]
    /\ UNCHANGED <<items, hist, fp, ev, cv>>

NextForce ==
    \/ \E h \in NestHandles : ForceEarlier(h)
    \/ \E arg \in NestArgs : ResolveArgument(arg)

SpecForce == InitForce /\ [][NextForce]_vars

----------------------------------------------------------------------------
(* SpecConvert: one call of convert(). cv.pc is where the call stands:     *)
(* split (at the head of the loop over the records), write (in the retry   *)
(* loop of one record), whole (in the retry loop of the unsplit output),   *)
(* done (returned), failed (an exception left convert).                    *)
(* cv.files is the file system under the output directory, cv.statsOut the *)
(* lines printed to the stats handle, cv.seen the elements that went       *)
(* through _print_stats.                                                   *)

\* SeqIO.SeqRecord(**d): a record with the attributes d gives
SeqRecord(d) == Val("seqrecord", 0, "", FALSE, d)

\* isinstance(x, SeqIO.SeqRecord)
IsSeqRecord(x) == x.t = "seqrecord"

Tuple(l) == Val("tuple", 0, "", FALSE, l)

\* a map object over the elements l
MapObject(l) == Val("map", 0, "", FALSE, l)

\* what iterating x goes through: the keys of a dict, the letters of the seq
\* of a SeqRecord (the records here have an empty seq), the elements of a
\* list, a tuple, a generator or a map object
Iterate(x) ==
    IF x.t = "obj" THEN [i \in 1..Len(x.l) |-> Str(x.l[i].k)]
    ELSE IF x.t = "seqrecord" THEN <<>>
    ELSE x.l

\* _allow_single
AllowSingle(records) ==
    IF IsSeqRecord(records) THEN Tuple(<<records>>) ELSE records

\* the last line of _to_SeqRecord: the lambda tests records, the iterable,
\* for being a dict
MapToSeqRecord(records) ==
    IF NotIterable(records) THEN Error("TypeError")
    ELSE MapObject([i \in 1..Len(Iterate(records)) |->
                       IF records.t = "obj"
                       THEN SeqRecord(Iterate(records)[i].l)
                       ELSE Iterate(records)[i]])

\* _to_SeqRecord
ToSeqRecord(records) ==
    MapToSeqRecord(AllowSingle(IF records.t = "obj" THEN SeqRecord(records.l)
                               ELSE records))

\* the output types of the model: text, json, GFF, a SeqIO format written in
\* text mode and one written in binary mode
OutputTypes == {"text", "json", "gff3", "fasta", "sff"}

\* the SeqIO formats whose writer raises StreamModeError on a text handle
BinaryFormats == {"sff"}

\* convert, lines 317-334: the xform of the output type
Xform(output_type, records) ==
    CASE output_type = "text" -> records
      [] output_type = "json" -> AllowSingle(records)
      [] OTHER                -> ToSeqRecord(records)

\* print("##gff-version 3", file=stats)
Header == [line |-> "##gff-version 3", id |-> Null]

\* to_stats(record): one GFF line of type sequence for record.id
ToStats(record) == [line |-> "sequence", id |-> DictGet(record.l, "id")]

\* _print_stats with every element, SeqRecord or not
PrintStatsAlways(record, stats, out) ==
    IF stats THEN Append(out, ToStats(record)) ELSE out

\* _print_stats(record, stats): the lines of the stats handle after it
PrintStats(record, stats, out) ==
    IF stats /\ IsSeqRecord(record) THEN Append(out, ToStats(record)) ELSE out

RECURSIVE PrintStatsEach(_, _, _, _)

\* map(lambda r: _print_stats(r, stats), seq) pulled to its end
PrintStatsEach(seq, stats, out, i) ==
    IF i > Len(seq) THEN out
    ELSE PrintStatsEach(seq, stats, PrintStats(seq[i], stats, out), i + 1)

\* a path: the parts of its name between the dots; path.suffix is the last
\* part of a name of several parts
Suffix(path) == IF Len(path) > 1 THEN <<path[Len(path)]>> ELSE <<>>

\* path.with_suffix(suffix): the suffix of the path is replaced
WithSuffix(path, suffix) ==
    (IF Len(path) > 1 THEN SubSeq(path, 1, Len(path) - 1) ELSE path) \o suffix

\* _generate_suffixes yielding the same path each time
GenerateSuffixStuck(path, i) == WithSuffix(path, <<ToString(0)>> \o Suffix(path))

\* _generate_suffixes: the path it yields the i-th time, i from 0
GenerateSuffix(path, i) == WithSuffix(path, <<ToString(i)>> \o Suffix(path))

\* what a writer makes of one element
Written(output_type, e) == [by |-> output_type, of |-> e]

\* SeqIO.write and gff_writer read the attributes of a SeqRecord; the text
\* and json writers take every element
Writable(output_type, e) == output_type \in {"text", "json"} \/ IsSeqRecord(e)

\* the elements a writer gets through before one raises
GoodLen(output_type, seq) ==
    IF \A i \in 1..Len(seq) : Writable(output_type, seq[i]) THEN Len(seq)
    ELSE (CHOOSE i \in 1..Len(seq) :
             /\ ~Writable(output_type, seq[i])
             /\ \A j \in 1..(i - 1) : Writable(output_type, seq[j])) - 1

\* the writer raises StreamModeError: a binary format on a text handle
ModeError(output_type, binary) == output_type \in BinaryFormats /\ ~binary

\* the writer raises StreamModeError: the writer of a binary format does on
\* a text handle; on a binary handle it is up to the library's writer, which
\* is no code of this package (refused)
StreamModeErrorRaised(output_type, binary, refused) ==
    ModeError(output_type, binary) \/ (binary /\ refused)

\* except StreamModeError that goes on with the next turn in either mode
OnStreamModeErrorRetry(c) == [c EXCEPT !.binary = TRUE]

\* except StreamModeError: raise if binary == 'b', else binary = 'b' and the
\* loop goes on with the next turn
OnStreamModeError(c) ==
    IF c.binary THEN [c EXCEPT !.pc = "failed", !.raised = "StreamModeError"]
    ELSE [c EXCEPT !.binary = TRUE]

\* path.open('w'): the file exists and is empty, then holds what was written
WriteFile(files, path, content) ==
    IF \E i \in 1..Len(files) : files[i].path = path
    THEN [files EXCEPT ![CHOOSE i \in 1..Len(files) : files[i].path = path].content
                          = content]
    ELSE Append(files, [path |-> path, content |-> content])

\* the records of the input and the dicts a query builds
RecA == SeqRecord(<<KV("id", Str("a"))>>)

RecB == SeqRecord(<<KV("id", Str("b"))>>)

DictA == Obj(<<KV("id", Str("c"))>>)

ConvElems == {RecA, RecB, DictA}

\* what get_records holds before xform: the parsed input or the result of
\* the query, a list or a generator of elements, or a single value
ConvResults ==
    {List(l) : l \in UNION {[1..n -> ConvElems] : n \in 0..MaxLen}} \cup
    {Lazy(l, "") : l \in UNION {[1..n -> ConvElems] : n \in 0..MaxLen}} \cup
    {RecA, DictA, Null}

OutputPaths == {<<"out", "fasta">>, <<"record">>}

InitConvert ==
    /\ items = [h \in Handles |-> <<>>]
    /\ st = NewInterpreter
    /\ obs = [op |-> "init", h |-> 0, val |-> Null]
    /\ hist = [h \in Handles |-> NoHist]
    /\ fp = NoFp
    /\ ev = NoEv
    /\ cv = NoCv

\* convert, lines 317-340: the writer and the xform are chosen, the header
\* is printed to the stats handle, get_records applies the xform
ConvertCall(output_type, split, stats, output_path, records) ==
    /\ cv = NoCv
    /\ cv' = [pc |-> IF IsError(Xform(output_type, records)) THEN "failed"
                     ELSE IF split THEN "split" ELSE "whole",
              output_type |-> output_type, split |-> split, stats |-> stats,
              path |-> output_path, result |-> records,
              seq |-> Xform(output_type, records),
              i |-> 0, rec |-> Null, cur |-> <<>>, binary |-> FALSE,
              files |-> <<>>, seen |-> <<>>, opens |-> <<>>, raised |-> "",
              statsOut |-> IF stats THEN <<Header>> ELSE <<>>]
    /\ UNCHANGED <<items, st, obs, hist, fp, ev>>

\* line 342-343: zip pulls the next record and the next path, and the record
\* goes through _print_stats
SplitNext ==
    /\ cv.pc = "split"
    /\ IF NotIterable(cv.seq)
       THEN cv' = [cv EXCEPT !.pc = "failed"]
       ELSE IF cv.i >= Len(Iterate(cv.seq))
       THEN cv' = [cv EXCEPT !.pc = "done"]
       ELSE cv' = [cv EXCEPT !.pc = "write",
                             !.rec = Iterate(cv.seq)[cv.i + 1],
                             !.cur = GenerateSuffix(cv.path, cv.i),
                             !.i = @ + 1,
                             !.seen = Append(@, Iterate(cv.seq)[cv.i + 1]),
                             !.statsOut = PrintStats(Iterate(cv.seq)[cv.i + 1],
                                                     cv.stats, @)]
    /\ UNCHANGED <<items, st, obs, hist, fp, ev>>

\* lines 344-353: one turn of the retry loop of a record; opens records the
\* path opened, the mode and the exception the turn ended with
SplitWrite(refused) ==
    /\ cv.pc = "write"
    /\ IF StreamModeErrorRaised(cv.output_type, cv.binary, refused)
       THEN cv' = [OnStreamModeError(cv) EXCEPT
                     !.files = WriteFile(@, cv.cur, <<>>),
                     !.opens = Append(@, [path |-> cv.cur, binary |-> cv.binary,
                                          err |-> "StreamModeError"])]
       ELSE IF ~Writable(cv.output_type, cv.rec)
       THEN cv' = [cv EXCEPT !.pc = "failed",
                             !.files = WriteFile(@, cv.cur, <<>>),
                             !.opens = Append(@, [path |-> cv.cur, binary |-> cv.binary,
                                                  err |-> "other"])]
       ELSE cv' = [cv EXCEPT !.pc = "split",
                             !.files = WriteFile(@, cv.cur,
                                           <<Written(cv.output_type, cv.rec)>>),
                             !.opens = Append(@, [path |-> cv.cur, binary |-> cv.binary,
                                                  err |-> ""])]
    /\ UNCHANGED <<items, st, obs, hist, fp, ev>>

\* lines 355-371: one turn of the retry loop of the unsplit output; the
\* writer pulls every record through _print_stats
WholeWrite(refused) ==
    /\ cv.pc = "whole"
    /\ IF NotIterable(cv.seq)
       THEN cv' = [cv EXCEPT !.pc = "failed",
                             !.files = WriteFile(@, cv.path, <<>>),
                             !.opens = Append(@, [path |-> cv.path, binary |-> cv.binary,
                                                  err |-> "other"])]
       ELSE IF StreamModeErrorRaised(cv.output_type, cv.binary, refused)
       THEN cv' = [OnStreamModeError(cv) EXCEPT
                     !.files = WriteFile(@, cv.path, <<>>),
                     !.opens = Append(@, [path |-> cv.path, binary |-> cv.binary,
                                          err |-> "StreamModeError"])]
       ELSE LET seq  == Iterate(cv.seq)
                n    == GoodLen(cv.output_type, seq)
                seen == SubSeq(seq, 1, IF n < Len(seq) THEN n + 1 ELSE n)
            IN  cv' = [cv EXCEPT
                         !.pc = IF n < Len(seq) THEN "failed" ELSE "done",
                         !.seen = seen,
                         !.statsOut = PrintStatsEach(seen, cv.stats, @, 1),
                         !.files = WriteFile(@, cv.path,
                                      [i \in 1..n |-> Written(cv.output_type, seq[i])]),
                         !.opens = Append(@, [path |-> cv.path, binary |-> cv.binary,
                                              err |-> IF n < Len(seq) THEN "other"
                                                      ELSE ""])]
    /\ UNCHANGED <<items, st, obs, hist, fp, ev>>

NextConvert ==
    \/ \E output_type \in OutputTypes, split \in BOOLEAN, stats \in BOOLEAN,
          output_path \in OutputPaths, records \in ConvResults :
          ConvertCall(output_type, split, stats, output_path, records)
    \/ SplitNext
    \/ \E refused \in BOOLEAN : SplitWrite(refused)
    \/ \E refused \in BOOLEAN : WholeWrite(refused)

SpecConvert == InitConvert /\ [][NextConvert]_vars

----------------------------------------------------------------------------
(* Claims about the memo table (Spec).                                     *)

\* what iterating x to its end would produce in state s
Yields(s, x) ==
    CASE x.t = "list"  -> x.l
      [] x.t = "gen"   -> Remaining(s, x.n)
      [] x.t = "chain" -> x.l \o Remaining(s, x.n)
      [] OTHER         -> <<>>

C2_PeekKeepsAllElements ==
    /\ \A h \in Handles :
          hist[h].peeked => Yields(st, VisitArg(st, Gen(h))) = items[h]
    /\ (obs.op \in {"or", "visit", "force"} /\ hist[obs.h].peeked) =>
          Yields(st, obs.val) = items[obs.h]

\* the elements of seq at start, start + step, ... below stop, with the
\* defaults 0, no bound and 1
Sliced(seq, params) ==
    LET start == IF params.l[1] = Null THEN 0 ELSE params.l[1].n
        stop  == IF params.l[2] = Null THEN Len(seq) ELSE Min(params.l[2].n, Len(seq))
        step  == IF params.l[3] = Null THEN 1 ELSE params.l[3].n
    IN  [k \in 1..Cardinality({i \in 0..Len(seq) : start + i * step < stop}) |->
            seq[start + (k - 1) * step + 1]]

\* C18: a slice of a generator that was not forced pulls nothing from it and
\* is a lazy sequence: projection, filter-projection and flatten take it for
\* array-like, its truthiness is that of its elements, and forcing it gives
\* the elements of the base at start, start + step, ... below stop.
C18_SliceIsLazySequence ==
    (obs.op = "slice" /\ IsGeneratorType(VisitArg(st, Gen(obs.h)))) =>
       /\ st.pos[obs.h] = obs.pulled
       /\ ArrayLike(obs.val)
       /\ IsFalse(st, obs.val).ret = (Sliced(Remaining(st, obs.h), obs.val.l[2]) = <<>>)
       /\ GenToList(st, obs.val, TRUE).ret
             = List(Sliced(Remaining(st, obs.h), obs.val.l[2]))

\* the list an index is taken of: for a generator what list() made of the
\* elements it still held when visit_index was called, else the value itself
Materialization ==
    IF IsGeneratorType(obs.base)
    THEN List(SubSeq(items[obs.h], obs.pulled + 1, Len(items[obs.h])))
    ELSE obs.base

\* C19: an index on a generator forces it first, and the list made is the
\* one the table holds under the generator from then on; on a list of n
\* elements (the one made, or the current value) index i gives element i for
\* 0 <= i < n, element n + i for -n <= i < 0 and None for any other i; on a
\* value that is no list and no generator it gives None.
C19_IndexForcesThenIndexes ==
    obs.op = "index" =>
       /\ IsGeneratorType(obs.base) =>
             /\ GeneratorsGet(st, ObjKey(obs.h), Gen(obs.h)) = Materialization
             /\ VisitArg(st, Gen(obs.h)) = Materialization
             /\ st.iter[obs.h] = 1
             /\ st.pos[obs.h] = Len(items[obs.h])
       /\ obs.val =
             IF Materialization.t # "list" THEN Null
             ELSE IF 0 <= obs.i /\ obs.i < Len(Materialization.l)
             THEN Materialization.l[obs.i + 1]
             ELSE IF -Len(Materialization.l) <= obs.i /\ obs.i < 0
             THEN Materialization.l[Len(Materialization.l) + obs.i + 1]
             ELSE Null

\* C19 witness: index -1 of a generator of two elements, not forced and not
\* pulled before, gave its last element
C19_Witness ==
    /\ obs.op = "index"
    /\ IsGeneratorType(obs.base)
    /\ obs.pulled = 0
    /\ obs.i = -1
    /\ Len(items[obs.h]) = 2
    /\ obs.val = Num(2)

----------------------------------------------------------------------------
(* Claims about the filter-projection (SpecFilter).                        *)

\* element i of the producer passes the filter: its condition is truthy and
\* its right-hand side is not Null
Passes(i) ==
    /\ ~IsFalseBase(Visit(fp.node.children[3], items[1][i], NoKwargs))
    /\ Visit(fp.node.children[2], items[1][i], NoKwargs) # Null

\* C3: over a lazy base, when the consumer has pulled k results and stops (the
\* generator stands before its first line or at its yield), the producer has
\* been pulled exactly up to the k-th passing element (not at all for k = 0),
\* and what is left of it has not been forced: list() never ran over it and
\* the table holds nothing.
C3_PullsOnlyOnDemand ==
    (fp.state \in {"created", "suspended"} /\ fp.value = Gen(1)) =>
       /\ IF Len(fp.out) = 0
          THEN st.pos[1] = 0
          ELSE /\ st.pos[1] \in 1..Len(items[1])
               /\ Passes(st.pos[1])
               /\ Cardinality({j \in 1..st.pos[1] : Passes(j)}) = Len(fp.out)
       /\ st.iter[1] = 0
       /\ st.generators = <<>>

\* C3 witness: the consumer stopped after one result of a lazy base that
\* still holds an element
C3_Witness ==
    /\ fp.state = "suspended"
    /\ fp.value = Gen(1)
    /\ Len(fp.out) = 1
    /\ st.pos[1] = 1
    /\ Len(items[1]) = 2

\* the result of an ordering comparison as the claim has it: defined on two
\* Numbers
OrderedCompare(op, left, right) ==
    IF left.t = "num" /\ right.t = "num"
    THEN OrderingFunc(op, left, right)
    ELSE Null

\* the value of a condition on an element as the claim has it
ConditionOn(condition, element) ==
    IF condition.type = "comparator" /\ condition.value \notin EqualityOps
    THEN OrderedCompare(condition.value,
                        Visit(condition.children[1], element, NoKwargs),
                        Visit(condition.children[2], element, NoKwargs))
    ELSE Visit(condition, element, NoKwargs)

RECURSIVE Selected(_, _)

\* the non-Null right-hand sides of the elements of seq whose condition is
\* truthy, in order
Selected(node, seq) ==
    IF seq = <<>>
    THEN <<>>
    ELSE IF /\ ~IsFalseBase(ConditionOn(node.children[3], Head(seq)))
            /\ Visit(node.children[2], Head(seq), NoKwargs) # Null
         THEN <<Visit(node.children[2], Head(seq), NoKwargs)>>
                 \o Selected(node, Tail(seq))
         ELSE Selected(node, Tail(seq))

\* C4: a filter-projection over an array-like base, pulled to its end, ends
\* without an error and has yielded exactly the non-Null right-hand sides of
\* the elements whose condition is truthy, in the order of the base; so
\* `[?age > 30].name` over [{name:'A',age:25},{name:'B',age:40}] gives ['B'].
C4_FilterYieldsSelected ==
    (fp.state \in {"finished", "raised"} /\ ArrayLike(fp.base)) =>
       /\ fp.state = "finished"
       /\ fp.out = Selected(fp.node, IF fp.base.t = "gen" THEN items[fp.base.n]
                                     ELSE fp.base.l)

\* C5: the call of a filter-projection whose base is not array-like (a
\* scalar, an Object or Null) gives Null.
C5_NonArrayBaseGivesNull ==
    (fp.state = "finished" /\ ~ArrayLike(fp.base)) => fp.ret = Null

----------------------------------------------------------------------------
(* Claims about let, field lookup and negation (SpecEval).                 *)

\* name is neither a key of the Object v nor an attribute of the Opaque v
Unresolvable(name, v) == ~(v.t \in {"obj", "opaque"} /\ HasKey(v.l, name))

\* the bindings argument written for dict d evaluates to d on current value v
BindsOn(d, v) == Visit(BindingNode(d), v, NoKwargs) = Obj(d)

\* C6: let(bindings, &name), with name bound in bindings and not resolvable
\* on the current value, is the bound value; when an inner let rebinds the
\* name, the innermost binding wins.
C6_LetYieldsBoundValue ==
    ev.op = "search" =>
       \A name \in Names, d1 \in BindingDicts, d2 \in BindingDicts :
          /\ ( /\ ev.query = LetNode(BindingNode(d1), Field(name))
               /\ HasKey(d1, name) /\ BindsOn(d1, ev.value)
               /\ Unresolvable(name, ev.value) )
             => ev.result = Lookup(d1, name)
          /\ ( /\ ev.query = LetNode(BindingNode(d1),
                                     LetNode(BindingNode(d2), Field(name)))
               /\ HasKey(d1, name) /\ HasKey(d2, name) /\ BindsOn(d1, ev.value)
               /\ Unresolvable(name, ev.value) )
             => ev.result = Lookup(d2, name)

\* C7: inside an inner let a name bound by the enclosing let and not rebound
\* is still visible: let(d1, &let(d2, &name)) with name in d1 only is d1's
\* value. Stated for the current values that are no Object, on which the
\* lookup of a name goes to the scope.
C7_InnerLetSeesOuterBinding ==
    ev.op = "search" =>
       \A name \in Names, d1 \in BindingDicts, d2 \in BindingDicts :
          ( /\ ev.query = LetNode(BindingNode(d1),
                                  LetNode(BindingNode(d2), Field(name)))
            /\ HasKey(d1, name) /\ ~HasKey(d2, name) /\ BindsOn(d1, ev.value)
            /\ Unresolvable(name, ev.value) /\ ev.value.t # "obj" )
          => ev.result = Lookup(d1, name)

\* the kwargs of the caller, read from the dicts that exist
KwAt(store, kwRef) == IF kwRef = 0 THEN NoKwargs ELSE ScopeKwargs(store[kwRef])

\* C8: a let call builds a new mapping and changes neither the scope it
\* extends nor its bindings argument: every dict that existed before the call
\* is the same after it, and every name resolves in the caller's scope after
\* the call as it did before.
C8_LetLeavesScopesUnchanged ==
    ev.op = "let" =>
       /\ Len(ev.after) = Len(ev.before) + 1
       /\ \A i \in 1..Len(ev.before) : ev.after[i] = ev.before[i]
       /\ \A name \in Names :
             VisitField(name, ev.value, KwAt(ev.after, ev.kwRef))
                = VisitField(name, ev.value, KwAt(ev.before, ev.kwRef))

\* C8 witness: a let over a scope binding x to 1 rebinds x to 2; the body sees
\* 2, the caller's scope still says 1
C8_Witness ==
    /\ ev.op = "let"
    /\ ev.kwRef = 1
    /\ ev.before = <<(<<KV("x", Num(1))>>), (<<KV("x", Num(2))>>)>>
    /\ ev.body = Field("x")
    /\ ev.value = Null
    /\ ev.result = Num(2)
    /\ VisitField("x", ev.value, KwAt(ev.after, ev.kwRef)) = Num(1)

\* the order the specification gives: a key of the Object, an attribute of
\* the Opaque, a binding of the scope, Null
ResolutionOrder(name, v, kw) ==
    IF v.t = "obj" /\ HasKey(v.l, name) THEN Lookup(v.l, name)
    ELSE IF v.t = "opaque" /\ HasKey(v.l, name) THEN Lookup(v.l, name)
    ELSE IF kw.has /\ HasKey(kw.scope, name) THEN Lookup(kw.scope, name)
    ELSE Null

\* C9: a field lookup resolves to the Object's key, else the Opaque's
\* attribute, else the scope's binding (also for an Object lacking the key),
\* else Null.
C9_FieldResolutionOrder ==
    ev.op = "field" => ev.result = ResolutionOrder(ev.name, ev.value, ev.kw)

\* general truthiness as the specification gives it: what is falsy
Falsy(v) == v \in {Null, Bool(FALSE), Str(""), List(<<>>), Obj(<<>>)}

\* C11: `l || r` is the value of l when it is truthy and else the value of r;
\* `l && r` is the value of l when it is falsy and else the value of r. The
\* value is the operand's own, not a Boolean made of it, the Number 0 on the
\* left is truthy, and an operand that is not returned is not evaluated: an
\* exception it would raise does not appear.
C11_AndOrReturnOperands ==
    ev.op = "search" =>
       \A l \in Operands, r \in Operands :
          LET lv == Visit(l, ev.value, NoKwargs)
              rv == Visit(r, ev.value, NoKwargs)
          IN  ~IsError(lv) =>
                 /\ ev.query = OrExpression(l, r) =>
                       ev.result = IF Falsy(lv) THEN rv ELSE lv
                 /\ ev.query = AndExpression(l, r) =>
                       ev.result = IF Falsy(lv) THEN lv ELSE rv

\* C11 witness: `@ || nosuch(@)` on the Number 0 is 0: 0 is truthy, it is
\* returned as it is, and the call that would raise is not evaluated
C11_Witness ==
    /\ ev.op = "search"
    /\ ev.query = OrExpression(Current, FunctionExpression("nosuch", <<Current>>))
    /\ ev.value = Num(0)
    /\ ev.result = Num(0)

\* C12: an ordering comparison is a Boolean when both operands are Numbers
\* and Null for every other pair of operands; it raises nothing.
C12_OrderingComparator ==
    ev.op = "search" =>
       \A op \in OrderingOps :
          /\ ev.query = Comparator(op, Current, Literal(Num(3))) =>
                ev.result = OrderedCompare(op, ev.value, Num(3))
          /\ ev.query = Comparator(op, Literal(Num(3)), Current) =>
                ev.result = OrderedCompare(op, Num(3), ev.value)

\* the results of right on the elements of seq that are not None, in order
Projected(right, seq) ==
    SelectSeq([i \in 1..Len(seq) |-> Visit(right, seq[i], NoKwargs)],
              LAMBDA r : r # Null)

\* C20: a value-projection of an Object is a lazy sequence that forces to
\* the results of the right expression on the Object's values, in the order
\* the keys were inserted and without the None results; a value-projection
\* of any other value is None.
C20_ValueProjection ==
    ev.op = "search" =>
       \A right \in {Identity, Field("x")} :
          ev.query = ValueProjection(Identity, right) =>
             IF ev.value.t = "obj"
             THEN /\ ArrayLike(ev.result)
                  /\ GenToList(NewInterpreter, ev.result, FALSE).ret
                        = List(Projected(right, Values(ev.value.l)))
             ELSE ev.result = Null

\* the current values that lack the member x and are no array
MissingValues ==
    {Null, Bool(FALSE), Bool(TRUE), Num(0), Num(5), Str(""), Str("s"), Obj(<<>>),
     Obj(<<KV("y", Num(8))>>), Opaque(<<KV("id", Str("r"))>>)}

\* the queries that ask such a value for what it lacks
MissingDataQueries ==
    {Field("x"), Index(0), Index(-1), Subexpression(Field("x"), Index(0)),
     Projection(Identity, Field("x")), Projection(Field("x"), Identity),
     Flatten(Identity), Flatten(Field("x")),
     ValueProjection(Field("x"), Identity),
     FilterProjection(Identity, Identity, Field("x")),
     FilterProjection(Field("x"), Identity, Field("y")),
     Comparator("eq", Field("x"), Literal(Str("s"))),
     Comparator("lt", Field("x"), Literal(Num(3)))}

\* Null, a falsy value, or a lazy sequence that ends at once without raising
Absent(v) == v = Null \/ Falsy(v) \/ (IsLazy(v) /\ v.l = <<>> /\ v.s = "")

\* C13: field, index, comparator, projection, filter-projection, flatten and
\* value-projection asked for missing data (a member the current value lacks,
\* an index or an array where there is none, a comparison with it) raise
\* nothing and give Null or a falsy result.
C13_MissingDataNeverRaises ==
    (ev.op = "search" /\ ev.query \in MissingDataQueries
                      /\ ev.value \in MissingValues) =>
       Absent(ev.result)

\* C10: !v is false for the Number 0 and the negated truthiness of v for
\* every other v.
C10_NotNegatesTruthiness ==
    (ev.op = "search" /\ ev.query = NotExpression(Current)) =>
       ev.result = Bool(IF ev.value = Num(0) THEN FALSE ELSE Falsy(ev.value))

----------------------------------------------------------------------------
(* Claims about the forcing of arguments (SpecForce).                      *)

RECURSIVE FullyForced(_)

\* x is no generator and holds none, at any depth
FullyForced(x) ==
    /\ ~IsGeneratorType(x)
    /\ ~IsLazy(x)
    /\ x.t = "list" => \A i \in 1..Len(x.l) : FullyForced(x.l[i])

\* C17: an argument handed to a function holds no lazy sequence at any depth,
\* whether the generators in it were forced before or not.
C17_ArgumentsFullyForced ==
    obs.op = "resolve" => FullyForced(obs.val)

----------------------------------------------------------------------------
(* Claims about convert (SpecConvert).                                     *)

\* the output types written by SeqIO.write or gff_writer, whose xform is
\* _to_SeqRecord
RecordTypes == {"gff3", "fasta", "sff"}

\* a dict made a SeqRecord, a SeqRecord as it is
AsSeqRecord(e) == IF e.t = "obj" THEN SeqRecord(e.l) ELSE e

\* the records the result of a query stands for
ExpectedRecords(result) ==
    IF result.t = "obj" \/ IsSeqRecord(result) THEN <<AsSeqRecord(result)>>
    ELSE [i \in 1..Len(result.l) |-> AsSeqRecord(result.l[i])]

\* C14: whatever the query returned (a dict, a SeqRecord, or an iterable of
\* dicts and SeqRecords), what _to_SeqRecord hands to the writer is, in
\* order, the SeqRecord of each dict and each SeqRecord unchanged.
C14_WriterGetsSeqRecords ==
    (cv.pc # "idle" /\ cv.output_type \in RecordTypes /\ cv.result # Null) =>
       /\ ~IsError(cv.seq)
       /\ Iterate(cv.seq) = ExpectedRecords(cv.result)

\* the path with '.i' put before its suffix
ExpectedPath(path, i) ==
    IF Len(path) > 1
    THEN SubSeq(path, 1, Len(path) - 1) \o <<ToString(i), path[Len(path)]>>
    ELSE path \o <<ToString(i)>>

\* C15: with split, the files written are, in the order of the records, the
\* paths with '.0', '.1', ... before the suffix, none skipped or used twice;
\* each file that is complete holds its record alone, and when convert
\* returns there are as many files as records.
C15_SplitWritesOneFilePerRecord ==
    (cv.pc # "idle" /\ cv.split) =>
       /\ \A j \in 1..Len(cv.files) :
             cv.files[j].path = ExpectedPath(cv.path, j - 1)
       /\ cv.pc \in {"split", "done"} =>
             /\ Len(cv.files) = cv.i
             /\ \A j \in 1..Len(cv.files) :
                   cv.files[j].content
                      = <<Written(cv.output_type, Iterate(cv.seq)[j])>>
       /\ cv.pc = "done" => Len(cv.files) = Len(Iterate(cv.seq))

\* C15 witness: two records were written in binary mode, after the retry, to
\* out.0.fasta and out.1.fasta
C15_Witness ==
    /\ cv.pc = "done"
    /\ cv.split
    /\ cv.binary
    /\ cv.path = <<"out", "fasta">>
    /\ Len(cv.files) = 2
    /\ cv.files[2].path = <<"out", "1", "fasta">>
    /\ cv.files[1].content # cv.files[2].content

\* the summary lines of the SeqRecords among seq, in order
SummaryLines(seq) ==
    [j \in 1..Len(SelectSeq(seq, IsSeqRecord)) |->
        ToStats(SelectSeq(seq, IsSeqRecord)[j])]

\* C16: with a stats handle, the first line is the header and no later line
\* is; after it come the summary lines of the elements that went to the
\* output and are SeqRecords, one each, in order, and none for any other
\* element. When convert returns, every element of the output went through.
\* Without a stats handle nothing is printed.
C16_StatsHeaderThenSummaries ==
    cv.pc # "idle" =>
       /\ ~cv.stats => cv.statsOut = <<>>
       /\ cv.stats =>
             /\ cv.statsOut = <<Header>> \o SummaryLines(cv.seen)
             /\ \A j \in 2..Len(cv.statsOut) : cv.statsOut[j] # Header
       /\ cv.pc = "done" => cv.seen = Iterate(cv.seq)
       /\ (cv.stats /\ \A j \in 1..Len(cv.seen) : ~IsSeqRecord(cv.seen[j])) =>
             Len(cv.statsOut) = 1

\* C16 witness: a text output of a SeqRecord and a dict left the header and
\* one summary line
C16_Witness ==
    /\ cv.pc = "done"
    /\ cv.stats
    /\ cv.seen = <<RecA, DictA>>
    /\ cv.statsOut = <<Header, ToStats(RecA)>>

\* C21: the retry loops end. A path is opened at most twice, and a second
\* time only in binary mode right after a StreamModeError in text mode; the
\* first open of a run is in text mode and no open after one in binary mode
\* is in text mode, so that a run makes at most one open more than it has
\* files; a StreamModeError in binary mode is the last thing of the run and
\* is raised to the caller.
C21_WriteRetryTerminates ==
    cv.pc # "idle" =>
       /\ \A j \in 1..Len(cv.opens) :
             Cardinality({k \in 1..Len(cv.opens) : cv.opens[k].path = cv.opens[j].path}) <= 2
       /\ \A j \in 1..Len(cv.opens), k \in 1..Len(cv.opens) :
             (j < k /\ cv.opens[j].path = cv.opens[k].path) =>
                /\ k = j + 1
                /\ ~cv.opens[j].binary /\ cv.opens[j].err = "StreamModeError"
                /\ cv.opens[k].binary
       /\ Len(cv.opens) >= 1 => ~cv.opens[1].binary
       /\ \A j \in 1..Len(cv.opens) :
             /\ cv.opens[j].binary => cv.binary
             /\ (j < Len(cv.opens) /\ cv.opens[j].binary) => cv.opens[j + 1].binary
             /\ (cv.opens[j].err = "StreamModeError" /\ ~cv.opens[j].binary) =>
                   /\ cv.binary
                   /\ IF j = Len(cv.opens) THEN cv.pc \in {"write", "whole"}
                      ELSE cv.opens[j + 1].path = cv.opens[j].path
             /\ (cv.opens[j].err = "StreamModeError" /\ cv.opens[j].binary) =>
                   /\ j = Len(cv.opens)
                   /\ cv.pc = "failed"
                   /\ cv.raised = "StreamModeError"
       /\ Len(cv.opens) <= (IF cv.split THEN cv.i ELSE 1) + 1
       /\ cv.raised = "StreamModeError" =>
             /\ cv.pc = "failed"
             /\ cv.opens[Len(cv.opens)].binary
             /\ cv.opens[Len(cv.opens)].err = "StreamModeError"

\* C21 witness: a split run of a binary format over two records ended; the
\* first file was opened in text mode and again in binary mode, the second
\* one once, in binary mode
C21_Witness ==
    /\ cv.pc = "done"
    /\ cv.split
    /\ Len(cv.opens) = 3
    /\ cv.opens[1].path = cv.opens[2].path
    /\ ~cv.opens[1].binary /\ cv.opens[2].binary
    /\ cv.opens[3].path # cv.opens[2].path
    /\ cv.opens[3].binary

====
